---- MODULE Spec2Model ----
(***************************************************************************)
(* Model of cardano-address-audit.js: the paged transaction locator, the   *)
(* per-transaction aggregation loop with its try/catch, and the final      *)
(* summary.  The data source (Blockfrost) is the environment: every        *)
(* response is chosen nondeterministically when the request is issued, and *)
(* the entries of utxos.inputs / utxos.outputs are revealed one by one as  *)
(* the for..of loops walk them.                                            *)
(***************************************************************************)
EXTENDS Integers, Sequences, FiniteSets

\* ------------------------------------------------------------------ bounds
MaxTxs == 2        \* transaction ids the data source holds for the address
MaxEntries == 2    \* entries in one inputs / outputs array

\* ------------------------------------------------------------ data domain
address == "addr_me"          \* process.argv[2]
Other == "addr_other"
TxIds == 1..MaxTxs

\* Strings that reach BigInt() are sequences of one-character strings.
Digits == {"0", "1", "2", "3", "4", "5", "6", "7", "8", "9"}

DigitVal(c) ==
  CASE c = "0" -> 0 [] c = "1" -> 1 [] c = "2" -> 2 [] c = "3" -> 3
    [] c = "4" -> 4 [] c = "5" -> 5 [] c = "6" -> 6 [] c = "7" -> 7
    [] c = "8" -> 8 [] c = "9" -> 9

DigitChr(d) ==
  CASE d = 0 -> "0" [] d = 1 -> "1" [] d = 2 -> "2" [] d = 3 -> "3"
    [] d = 4 -> "4" [] d = 5 -> "5" [] d = 6 -> "6" [] d = 7 -> "7"
    [] d = 8 -> "8" [] d = 9 -> "9"

\* BigInt(s) throws a SyntaxError unless s is a numeral; the responses of the
\* model only carry unsigned decimal numerals or non-numeric text.
BigIntThrows(s) == Len(s) = 0 \/ \E i \in 1..Len(s) : s[i] \notin Digits

RECURSIVE BigInt(_)
BigInt(s) ==
  IF Len(s) = 0 THEN 0
  ELSE 10 * BigInt(SubSeq(s, 1, Len(s) - 1)) + DigitVal(s[Len(s)])

\* BigInt.prototype.toString() of a non-negative value
RECURSIVE toString(_)
toString(n) ==
  IF n < 10 THEN <<DigitChr(n)>>
  ELSE Append(toString(n \div 10), DigitChr(n % 10))

\* BigInt `/` truncates toward zero
BigIntDiv(a, b) ==
  LET q == (IF a < 0 THEN -a ELSE a) \div (IF b < 0 THEN -b ELSE b)
  IN IF (a < 0) # (b < 0) THEN -q ELSE q

\* { unit, quantity }
Amt(u, q) == [unit |-> u, quantity |-> q]

\* One entry of utxos.inputs / utxos.outputs.  hasAmount = FALSE is an entry
\* whose `amount` field is absent (undefined).
Ent(a, h, am) == [address |-> a, hasAmount |-> h, amount |-> am]

Entries ==
  { Ent(address, TRUE, <<Amt("lovelace", <<"2">>)>>),
    Ent(address, TRUE, <<Amt("lovelace", <<"1">>), Amt("assetX", <<"5">>)>>),
    Ent(address, TRUE, <<Amt("assetY", <<"1">>)>>),
    Ent(Other, TRUE, <<Amt("assetY", <<"7">>), Amt("lovelace", <<"1">>)>>),
    Ent(address, FALSE, <<>>),
    Ent(Other, TRUE, <<Amt("lovelace", <<"x">>)>>) }

\* txinfo of GET /txs/{hash}; hasFee = FALSE is a response without `fee`.
TxInfos ==
  { [hasFee |-> TRUE, fee |-> <<"1">>],
    [hasFee |-> TRUE, fee |-> <<"3">>],
    [hasFee |-> TRUE, fee |-> <<"n", "a">>],
    [hasFee |-> FALSE, fee |-> <<>>] }

NoReport == [emitted |-> FALSE]

VARIABLES
  pc,                    \* position of the main async function
  page, txs,             \* locals of fetchAllTxsForAddress
  requested, responses,  \* pages requested so far and what came back
  txHashes, idx,         \* located ids; number of loop iterations finished
  totalReceivedLovelace, totalSpentLovelace, totalFeesAttributed,
  outgoingWithAssetsCount, outgoingAssetsSet, perTxSummary,
  feeLovelace, totalInputsLovelace, inputsFromAddressLovelace,
  inputsFromAddressHasAssets, assetsMovedFromAddressThisTx,
  outputsToAddressLovelace,
  walked,                \* entries of the current array already iterated
  warnings, lastErr,     \* console.warn lines: tx hash, and the last cause
  fetches,               \* per-transaction detail requests issued
  exitCode, report,
  atLoopHead             \* totals as they were when the iteration started

totals == <<totalReceivedLovelace, totalSpentLovelace, totalFeesAttributed,
            outgoingWithAssetsCount, perTxSummary>>
locals == <<feeLovelace, totalInputsLovelace, inputsFromAddressLovelace,
            inputsFromAddressHasAssets, assetsMovedFromAddressThisTx,
            outputsToAddressLovelace, walked>>
locator == <<page, txs, requested, responses>>
vars == <<pc, locator, txHashes, idx, totals, outgoingAssetsSet, locals,
          warnings, lastErr, fetches, exitCode, report, atLoopHead>>

\* --------------------------------------------------------- pure functions
\* arr.find((a) => a.unit === 'lovelace')
RECURSIVE FindLovelace(_, _)
FindLovelace(arr, i) ==
  IF i > Len(arr) THEN 0
  ELSE IF arr[i].unit = "lovelace" THEN i ELSE FindLovelace(arr, i + 1)

\* sumLovelaceAmount raises when arr is undefined or the quantity is no numeral
sumLovelaceThrows(e) ==
  \/ ~e.hasAmount
  \/ LET k == FindLovelace(e.amount, 1)
     IN k # 0 /\ BigIntThrows(e.amount[k].quantity)

sumLovelaceAmount(arr) ==
  LET k == FindLovelace(arr, 1)
  IN IF k = 0 THEN 0 ELSE BigInt(arr[k].quantity)

\* the inner loop over inp.amount: the { unit, quantity } pairs pushed
NonLovelace(arr) == SelectSeq(arr, LAMBDA a : a.unit # "lovelace")

\* Set.prototype.add keeps insertion order and ignores a value already present
SetAdd(s, u) == IF \E i \in 1..Len(s) : s[i] = u THEN s ELSE Append(s, u)

RECURSIVE SetAddAll(_, _)
SetAddAll(s, arr) ==
  IF Len(arr) = 0 THEN s
  ELSE SetAddAll(SetAdd(s, Head(arr).unit), Tail(arr))

\* variant: the share rounded up instead of down
FeeAttributedCeil(fee, fromAddr, total) ==
  IF fromAddr > 0 /\ total > 0 THEN BigIntDiv(fee * fromAddr + total - 1, total) ELSE 0

\* variant: numerator and denominator of the proportion exchanged
FeeAttributedSwapped(fee, fromAddr, total) ==
  IF fromAddr > 0 /\ total > 0 THEN BigIntDiv(fee * total, fromAddr) ELSE 0

\* lines 154-160
FeeAttributed(fee, fromAddr, total) ==
  IF fromAddr > 0 /\ total > 0 THEN BigIntDiv(fee * fromAddr, total) ELSE 0

\* Number(x) / 1e6, kept as whole ADA and millionths (exact below 2^53)
Ada(x) ==
  LET m == IF x < 0 THEN -x ELSE x
  IN [neg |-> x < 0, whole |-> m \div 1000000, micro |-> m % 1000000]

AdaSub(a, b) ==
  LET v(r) == (IF r.neg THEN -1 ELSE 1) * (r.whole * 1000000 + r.micro)
  IN Ada(v(a) - v(b))

\* ------------------------------------------------------------------- Init
ResetLocals ==
  /\ feeLovelace' = 0
  /\ totalInputsLovelace' = 0
  /\ inputsFromAddressLovelace' = 0
  /\ inputsFromAddressHasAssets' = FALSE
  /\ assetsMovedFromAddressThisTx' = <<>>
  /\ outputsToAddressLovelace' = 0
  /\ walked' = 0

Init ==
  /\ pc = "locate"
  /\ page = 1
  /\ txs = <<>>
  /\ requested = <<>>
  /\ responses = <<>>
  /\ txHashes = <<>>
  /\ idx = 0
  /\ totalReceivedLovelace = 0
  /\ totalSpentLovelace = 0
  /\ totalFeesAttributed = 0
  /\ outgoingWithAssetsCount = 0
  /\ outgoingAssetsSet = <<>>
  /\ perTxSummary = <<>>
  /\ feeLovelace = 0
  /\ totalInputsLovelace = 0
  /\ inputsFromAddressLovelace = 0
  /\ inputsFromAddressHasAssets = FALSE
  /\ assetsMovedFromAddressThisTx = <<>>
  /\ outputsToAddressLovelace = 0
  /\ walked = 0
  /\ warnings = <<>>
  /\ lastErr = "none"
  /\ fetches = 0
  /\ exitCode = 0
  /\ report = NoReport
  /\ atLoopHead = <<0, 0, 0, 0, <<>>>>

\* ---------------------------------------------------------------- locator
\* Pages the data source can answer with: a non-empty array of records with
\* ids not handed out before, an empty array, or a body that is no array.
Used == {txs[i] : i \in 1..Len(txs)}

RECURSIVE SeqsOver(_, _)
SeqsOver(S, n) ==
  IF n = 0 THEN {<<>>}
  ELSE LET shorter == SeqsOver(S, n - 1)
       IN shorter \cup
          {Append(s, x) : s \in {t \in shorter : Len(t) = n - 1}, x \in S}

Distinct(s) == \A i, j \in 1..Len(s) : i # j => s[i] # s[j]

PageBodies ==
  {[isArray |-> TRUE, items |-> [i \in 1..Len(s) |-> [tx_hash |-> s[i]]]] :
      s \in {t \in SeqsOver(TxIds \ Used, MaxTxs - Len(txs)) : Distinct(t)}}
  \cup {[isArray |-> FALSE, items |-> <<>>]}

\* variant: the new page put in front of the ids collected so far
PrependPage(acc, data) ==
  [i \in 1..Len(data.items) |-> data.items[i].tx_hash] \o acc

\* line 60
ConcatPage(acc, data) ==
  acc \o [i \in 1..Len(data.items) |-> data.items[i].tx_hash]

\* line 59
IsEndOfData(data) == ~data.isArray \/ Len(data.items) = 0

\* lines 55-64, one pass of the while loop whose request succeeds
FetchPage ==
  /\ pc = "locate"
  /\ \E data \in PageBodies :
       /\ requested' = Append(requested, page)
       /\ responses' = Append(responses, [status |-> "ok", data |-> data])
       /\ IF IsEndOfData(data)
          THEN /\ txHashes' = txs
               /\ pc' = "loop"
               /\ UNCHANGED <<page, txs>>
          ELSE /\ txs' = ConcatPage(txs, data)
               /\ page' = page + 1
               /\ UNCHANGED <<pc, txHashes>>
  /\ UNCHANGED <<idx, totals, outgoingAssetsSet, locals, warnings, lastErr,
                 fetches, exitCode, report, atLoopHead>>

\* variant: the catch at lines 90-93 logs and goes on with the ids so far
LocatorFailSwallowed ==
  /\ pc = "locate"
  /\ requested' = Append(requested, page)
  /\ responses' = Append(responses,
                         [status |-> "error", data |-> [isArray |-> FALSE, items |-> <<>>]])
  /\ txHashes' = txs
  /\ pc' = "loop"
  /\ UNCHANGED <<page, txs, idx, totals, outgoingAssetsSet, locals,
                 warnings, lastErr, fetches, exitCode, report, atLoopHead>>

\* lines 56-58 rejecting, caught at lines 90-93: process.exit(1)
LocatorFail ==
  /\ pc = "locate"
  /\ requested' = Append(requested, page)
  /\ responses' = Append(responses,
                         [status |-> "error", data |-> [isArray |-> FALSE, items |-> <<>>]])
  /\ exitCode' = 1
  /\ pc' = "aborted"
  /\ UNCHANGED <<page, txs, txHashes, idx, totals, outgoingAssetsSet, locals,
                 warnings, lastErr, fetches, report, atLoopHead>>

\* ------------------------------------------------- per-transaction loop
txhash == txHashes[idx + 1]

\* variant: the spent total updated on the way out of a failed iteration too
CatchAfterSpend(cause) ==
  /\ warnings' = Append(warnings, txHashes[idx + 1])
  /\ lastErr' = cause
  /\ idx' = idx + 1
  /\ pc' = "loop"
  /\ ResetLocals
  /\ totalSpentLovelace' = totalSpentLovelace + inputsFromAddressLovelace
  /\ UNCHANGED <<totalReceivedLovelace, totalFeesAttributed, outgoingWithAssetsCount,
                 perTxSummary, outgoingAssetsSet>>

\* lines 175-178: warn and go on with the next id
Catch(cause) ==
  /\ warnings' = Append(warnings, txhash)
  /\ lastErr' = cause
  /\ idx' = idx + 1
  /\ pc' = "loop"
  /\ ResetLocals
  /\ UNCHANGED <<totals, outgoingAssetsSet>>

\* line 108, the request answered
FetchTxUtxosOk ==
  /\ pc = "loop" /\ idx < Len(txHashes)
  /\ atLoopHead' = totals
  /\ fetches' = fetches + 1
  /\ pc' = "info"
  /\ UNCHANGED <<locator, txHashes, idx, totals, outgoingAssetsSet, locals,
                 warnings, lastErr, exitCode, report>>

\* line 108, the request rejected
FetchTxUtxosFail ==
  /\ pc = "loop" /\ idx < Len(txHashes)
  /\ atLoopHead' = totals
  /\ fetches' = fetches + 1
  /\ Catch("utxos_fetch")
  /\ UNCHANGED <<locator, txHashes, exitCode, report>>

\* line 112, the request rejected
FetchTxInfoFail ==
  /\ pc = "info"
  /\ fetches' = fetches + 1
  /\ Catch("info_fetch")
  /\ UNCHANGED <<locator, txHashes, exitCode, report, atLoopHead>>

\* lines 112-122: the request answered, then BigInt(txinfo.fee)
FetchTxInfoOk ==
  /\ pc = "info"
  /\ fetches' = fetches + 1
  /\ \E txinfo \in TxInfos :
       IF ~txinfo.hasFee \/ BigIntThrows(txinfo.fee)
       THEN Catch("fee")
       ELSE /\ feeLovelace' = BigInt(txinfo.fee)
            /\ totalInputsLovelace' = 0
            /\ inputsFromAddressLovelace' = 0
            /\ inputsFromAddressHasAssets' = FALSE
            /\ assetsMovedFromAddressThisTx' = <<>>
            /\ walked' = 0
            /\ pc' = "inputs"
            /\ UNCHANGED <<idx, totals, outgoingAssetsSet, outputsToAddressLovelace,
                           warnings, lastErr>>
  /\ UNCHANGED <<locator, txHashes, exitCode, report, atLoopHead>>

\* line 124 when utxos.inputs is absent or no array: for..of raises
InputsNotIterable ==
  /\ pc = "inputs" /\ walked = 0
  /\ Catch("inputs_not_iterable")
  /\ UNCHANGED <<locator, txHashes, fetches, exitCode, report, atLoopHead>>

\* variant: the flag raised for every input of the address, assets or not
InputFromAddressFlagAlways(e) ==
  /\ inputsFromAddressLovelace' = inputsFromAddressLovelace + sumLovelaceAmount(e.amount)
  /\ inputsFromAddressHasAssets' = TRUE
  /\ assetsMovedFromAddressThisTx' = assetsMovedFromAddressThisTx \o NonLovelace(e.amount)
  /\ outgoingAssetsSet' = SetAddAll(outgoingAssetsSet, NonLovelace(e.amount))

\* lines 127-138: what one input of the audited address adds
InputFromAddress(e) ==
  /\ inputsFromAddressLovelace' = inputsFromAddressLovelace + sumLovelaceAmount(e.amount)
  /\ inputsFromAddressHasAssets' =
       (inputsFromAddressHasAssets \/ Len(NonLovelace(e.amount)) > 0)
  /\ assetsMovedFromAddressThisTx' = assetsMovedFromAddressThisTx \o NonLovelace(e.amount)
  /\ outgoingAssetsSet' = SetAddAll(outgoingAssetsSet, NonLovelace(e.amount))

\* lines 124-139, one iteration of the loop over utxos.inputs
InputEntry ==
  /\ pc = "inputs" /\ walked < MaxEntries
  /\ \E inp \in Entries :
       IF sumLovelaceThrows(inp)
       THEN Catch("input_entry")
       ELSE /\ totalInputsLovelace' = totalInputsLovelace + sumLovelaceAmount(inp.amount)
            /\ IF inp.address = address
               THEN InputFromAddress(inp)
               ELSE UNCHANGED <<inputsFromAddressLovelace, inputsFromAddressHasAssets,
                                assetsMovedFromAddressThisTx, outgoingAssetsSet>>
            /\ walked' = walked + 1
            /\ UNCHANGED <<pc, idx, totals, feeLovelace, outputsToAddressLovelace,
                           warnings, lastErr>>
  /\ UNCHANGED <<locator, txHashes, fetches, exitCode, report, atLoopHead>>

\* line 139 -> 142: utxos.inputs exhausted
InputsEnd ==
  /\ pc = "inputs"
  /\ pc' = "outputs"
  /\ outputsToAddressLovelace' = 0
  /\ walked' = 0
  /\ UNCHANGED <<locator, txHashes, idx, totals, outgoingAssetsSet, feeLovelace,
                 totalInputsLovelace, inputsFromAddressLovelace,
                 inputsFromAddressHasAssets, assetsMovedFromAddressThisTx,
                 warnings, lastErr, fetches, exitCode, report, atLoopHead>>

\* line 143 when utxos.outputs is absent or no array
OutputsNotIterable ==
  /\ pc = "outputs" /\ walked = 0
  /\ Catch("outputs_not_iterable")
  /\ UNCHANGED <<locator, txHashes, fetches, exitCode, report, atLoopHead>>

\* lines 143-147, one iteration of the loop over utxos.outputs
OutputEntry ==
  /\ pc = "outputs" /\ walked < MaxEntries
  /\ \E out \in Entries :
       IF out.address = address /\ sumLovelaceThrows(out)
       THEN Catch("output_entry")
       ELSE /\ outputsToAddressLovelace' =
                 (IF out.address = address
                  THEN outputsToAddressLovelace + sumLovelaceAmount(out.amount)
                  ELSE outputsToAddressLovelace)
            /\ walked' = walked + 1
            /\ UNCHANGED <<pc, idx, totals, outgoingAssetsSet, feeLovelace,
                           totalInputsLovelace, inputsFromAddressLovelace,
                           inputsFromAddressHasAssets, assetsMovedFromAddressThisTx,
                           warnings, lastErr>>
  /\ UNCHANGED <<locator, txHashes, fetches, exitCode, report, atLoopHead>>

\* variant: the whole fee written where the attributed share belongs
SummaryWholeFee(feeAttributedToThisAddress) ==
  [txhash |-> txHashes[idx + 1],
   inputs_from_address_lovelace |-> toString(inputsFromAddressLovelace),
   outputs_to_address_lovelace |-> toString(outputsToAddressLovelace),
   fee_lovelace |-> toString(feeLovelace),
   fee_attributed_lovelace |-> toString(feeLovelace),
   outgoing_assets |-> assetsMovedFromAddressThisTx]

\* lines 166-173
Summary(feeAttributedToThisAddress) ==
  [txhash |-> txhash,
   inputs_from_address_lovelace |-> toString(inputsFromAddressLovelace),
   outputs_to_address_lovelace |-> toString(outputsToAddressLovelace),
   fee_lovelace |-> toString(feeLovelace),
   fee_attributed_lovelace |-> toString(feeAttributedToThisAddress),
   outgoing_assets |-> assetsMovedFromAddressThisTx]

\* lines 149-173: utxos.outputs exhausted, totals and summary updated
Accumulate ==
  /\ pc = "outputs"
  /\ LET feeAttributedToThisAddress ==
           FeeAttributed(feeLovelace, inputsFromAddressLovelace, totalInputsLovelace)
     IN /\ totalReceivedLovelace' = totalReceivedLovelace + outputsToAddressLovelace
        /\ totalSpentLovelace' = totalSpentLovelace + inputsFromAddressLovelace
        /\ totalFeesAttributed' = totalFeesAttributed + feeAttributedToThisAddress
        /\ outgoingWithAssetsCount' =
             (IF inputsFromAddressHasAssets
              THEN outgoingWithAssetsCount + 1 ELSE outgoingWithAssetsCount)
        /\ perTxSummary' = Append(perTxSummary, Summary(feeAttributedToThisAddress))
  /\ idx' = idx + 1
  /\ pc' = "loop"
  /\ ResetLocals
  /\ UNCHANGED <<locator, txHashes, outgoingAssetsSet, warnings, lastErr,
                 fetches, exitCode, report, atLoopHead>>

\* variant: per_tx_count taken from the located ids
summaryCountsLocated ==
  [emitted |-> TRUE,
   address |-> address,
   tx_count |-> Len(txHashes),
   total_received_ada |-> Ada(totalReceivedLovelace),
   total_spent_ada |-> Ada(totalSpentLovelace),
   net_ada_change |-> AdaSub(Ada(totalReceivedLovelace), Ada(totalSpentLovelace)),
   estimated_fees_paid_ada |-> Ada(totalFeesAttributed),
   outgoing_txs_with_assets_count |-> outgoingWithAssetsCount,
   unique_asset_units_moved_out |-> outgoingAssetsSet,
   per_tx_count |-> Len(txHashes)]

\* lines 181-199; Array.from(outgoingAssetsSet) lists the set in insertion order
summary ==
  [emitted |-> TRUE,
   address |-> address,
   tx_count |-> Len(txHashes),
   total_received_ada |-> Ada(totalReceivedLovelace),
   total_spent_ada |-> Ada(totalSpentLovelace),
   net_ada_change |-> AdaSub(Ada(totalReceivedLovelace), Ada(totalSpentLovelace)),
   estimated_fees_paid_ada |-> Ada(totalFeesAttributed),
   outgoing_txs_with_assets_count |-> outgoingWithAssetsCount,
   unique_asset_units_moved_out |-> outgoingAssetsSet,
   per_tx_count |-> Len(perTxSummary)]

\* lines 181-209
BuildReport ==
  /\ pc = "loop" /\ idx = Len(txHashes)
  /\ report' = summary
  /\ pc' = "done"
  /\ UNCHANGED <<locator, txHashes, idx, totals, outgoingAssetsSet, locals,
                 warnings, lastErr, fetches, exitCode, atLoopHead>>

Next ==
  \/ FetchPage
  \/ LocatorFail
  \/ FetchTxUtxosOk
  \/ FetchTxUtxosFail
  \/ FetchTxInfoOk
  \/ FetchTxInfoFail
  \/ InputsNotIterable
  \/ InputEntry
  \/ InputsEnd
  \/ OutputsNotIterable
  \/ OutputEntry
  \/ Accumulate
  \/ BuildReport

Spec == Init /\ [][Next]_vars

\* main is one sequential async function: every await settles (the requests
\* carry a 20 s timeout, the pauses are timers), so an enabled step is taken.
FairSpec == Spec /\ WF_vars(Next)

TypeOK ==
  /\ pc \in {"locate", "loop", "info", "inputs", "outputs", "done", "aborted"}
  /\ idx \in 0..Len(txHashes)
  /\ walked \in 0..MaxEntries

\* ------------------------------------------------------------- properties
RECURSIVE SumSeq(_)
SumSeq(s) == IF Len(s) = 0 THEN 0 ELSE Head(s) + SumSeq(Tail(s))

Received(s) == BigInt(s.outputs_to_address_lovelace)
Spent(s) == BigInt(s.inputs_from_address_lovelace)
FeeShare(s) == BigInt(s.fee_attributed_lovelace)
Fee(s) == BigInt(s.fee_lovelace)

SummaryHashes == [i \in 1..Len(perTxSummary) |-> perTxSummary[i].txhash]
Warned == {warnings[i] : i \in 1..Len(warnings)}
AtBoundary == pc \in {"loop", "done"}

\* C1: a transaction that fails at any step is caught; the loop moves on to
\* the next id without exiting, the four running totals and the summary list
\* are what they were when that transaction's iteration started, and the run
\* goes on to emit the report.
C1_FailedTxLeavesTotals ==
  /\ [][Len(warnings') > Len(warnings) =>
          /\ totals' = atLoopHead'
          /\ warnings' = Append(warnings, txhash)
          /\ idx' = idx + 1
          /\ pc' = "loop"
          /\ exitCode' = 0]_vars
  /\ (Len(warnings) > 0) ~> (pc = "done" /\ report.emitted)

C1_Witness ==
  /\ pc = "done" /\ report.emitted
  /\ lastErr = "output_entry"
  /\ Len(warnings) = 1 /\ Len(perTxSummary) = 1
  /\ totalSpentLovelace > 0

\* C2 (as claimed): a transaction whose utxos.inputs or utxos.outputs is absent
\* or no array is never skipped.
C2_MissingArraysNotSkipped ==
  lastErr \notin {"inputs_not_iterable", "outputs_not_iterable"}

\* C3 (as claimed): between transactions and at the report, the outgoing-asset
\* set holds no duplicates and exactly the units listed in the outgoing_assets
\* of the emitted summaries.
C3_AssetSetMatchesSummaries ==
  AtBoundary =>
    /\ Distinct(outgoingAssetsSet)
    /\ {outgoingAssetsSet[i] : i \in 1..Len(outgoingAssetsSet)} =
         UNION {{perTxSummary[i].outgoing_assets[j].unit :
                   j \in 1..Len(perTxSummary[i].outgoing_assets)} :
                i \in 1..Len(perTxSummary)}

\* C4: when a transaction is folded in, the fee share written to its summary
\* is floor(fee * fromAddress / totalInputs) if both are positive and 0
\* otherwise (so 0 when the address put in no lovelace), and totalFeesAttributed
\* grows by exactly that share.
C4_FeeShareFormula ==
  [][Len(perTxSummary') = Len(perTxSummary) + 1 =>
       LET s == perTxSummary'[Len(perTxSummary')]
           share == IF inputsFromAddressLovelace > 0 /\ totalInputsLovelace > 0
                    THEN (feeLovelace * inputsFromAddressLovelace) \div totalInputsLovelace
                    ELSE 0
       IN /\ Fee(s) = feeLovelace
          /\ Spent(s) = inputsFromAddressLovelace
          /\ FeeShare(s) = share
          /\ (Spent(s) = 0 => FeeShare(s) = 0)
          /\ totalFeesAttributed' = totalFeesAttributed + FeeShare(s)]_vars

\* fee 3, one lovelace of two from the address: floor(3 * 1 / 2) = 1
C4_Witness ==
  \E i \in 1..Len(perTxSummary) :
    /\ perTxSummary[i].fee_lovelace = <<"3">>
    /\ perTxSummary[i].inputs_from_address_lovelace = <<"1">>
    /\ perTxSummary[i].fee_attributed_lovelace = <<"1">>
    /\ totalFeesAttributed >= 1

\* C5: in every emitted summary the attributed fee is at most the whole fee
\* reported by the source.
C5_FeeShareAtMostFee ==
  \A i \in 1..Len(perTxSummary) : FeeShare(perTxSummary[i]) <= Fee(perTxSummary[i])

\* the address supplied every input lovelace: the share is the whole fee
C5_Witness ==
  \E i \in 1..Len(perTxSummary) :
    /\ perTxSummary[i].fee_lovelace = <<"3">>
    /\ perTxSummary[i].fee_attributed_lovelace = <<"3">>
    /\ perTxSummary[i].inputs_from_address_lovelace = <<"4">>

\* C6: the three lovelace accumulators always equal the sums of the matching
\* fields over the emitted summaries, and the report converts exactly those.
C6_TotalsAreSumsOfSummaries ==
  /\ totalReceivedLovelace =
       SumSeq([i \in 1..Len(perTxSummary) |-> Received(perTxSummary[i])])
  /\ totalSpentLovelace =
       SumSeq([i \in 1..Len(perTxSummary) |-> Spent(perTxSummary[i])])
  /\ totalFeesAttributed =
       SumSeq([i \in 1..Len(perTxSummary) |-> FeeShare(perTxSummary[i])])
  /\ pc = "done" =>
       /\ report.total_received_ada.micro = totalReceivedLovelace % 1000000
       /\ report.total_received_ada.whole = totalReceivedLovelace \div 1000000
       /\ report.total_spent_ada.micro = totalSpentLovelace % 1000000
       /\ report.estimated_fees_paid_ada.micro = totalFeesAttributed % 1000000

C6_Witness ==
  /\ pc = "done"
  /\ Len(perTxSummary) = 2
  /\ totalReceivedLovelace = 3 /\ totalSpentLovelace = 5 /\ totalFeesAttributed = 4
  /\ Received(perTxSummary[1]) # Received(perTxSummary[2])

\* C7: once a page request of the locator has failed the run is aborted with
\* a non-zero exit status: no detail request was or is issued, no located id
\* is processed and no report is emitted.
C7_LocatorFailureAborts ==
  (\E i \in 1..Len(responses) : responses[i].status = "error") =>
    /\ pc = "aborted"
    /\ exitCode # 0
    /\ fetches = 0
    /\ idx = 0 /\ warnings = <<>> /\ perTxSummary = <<>>
    /\ ~report.emitted

\* the second page fails after a first page with ids
C7_Witness ==
  /\ pc = "aborted"
  /\ Len(responses) = 2 /\ responses[2].status = "error"
  /\ Len(txs) > 0

\* C8: between transactions the summaries plus the warnings account for the
\* ids handled so far; in the report per_tx_count = tx_count minus the
\* skipped ones (so <= tx_count, equal iff none was skipped), and the
\* summaries are the located ids that were not skipped, in locator order.
C8_PerTxCount ==
  /\ AtBoundary => Len(perTxSummary) + Len(warnings) = idx
  /\ pc = "done" =>
       /\ report.tx_count = Len(txHashes)
       /\ report.per_tx_count = report.tx_count - Len(warnings)
       /\ report.per_tx_count <= report.tx_count
       /\ (report.per_tx_count = report.tx_count <=> warnings = <<>>)
       /\ Len(perTxSummary) = report.per_tx_count
       /\ SummaryHashes = SelectSeq(txHashes, LAMBDA h : h \notin Warned)

\* the first of two ids was skipped, the second succeeded
C8_Witness ==
  /\ pc = "done"
  /\ report.tx_count = 2 /\ report.per_tx_count = 1
  /\ SummaryHashes = <<txHashes[2]>>

RECURSIVE Concat(_)
Concat(ss) == IF Len(ss) = 0 THEN <<>> ELSE Head(ss) \o Concat(Tail(ss))

PageIds(r) == [i \in 1..Len(r.data.items) |-> r.data.items[i].tx_hash]
EndPage(r) == r.status = "ok" /\ (~r.data.isArray \/ r.data.items = <<>>)
FullPage(r) == r.status = "ok" /\ r.data.isArray /\ r.data.items # <<>>

\* C9: pages are requested as 1, 2, 3, ...; no page is requested after an
\* empty or non-array one, which ends retrieval without an error; the located
\* ids are the ids of the pages before it, concatenated in order; with an
\* empty first page the report has tx_count 0, zero totals and no assets.
C9_Paging ==
  LET n == Len(responses)
      before == [i \in 1..(n - 1) |-> PageIds(responses[i])]
  IN /\ requested = [i \in 1..n |-> i]
     /\ \A i \in 1..(n - 1) : FullPage(responses[i])
     /\ pc = "locate" =>
          /\ n > 0 => FullPage(responses[n])
          /\ page = n + 1
          /\ txs = Concat([i \in 1..n |-> PageIds(responses[i])])
     /\ pc \notin {"locate", "aborted"} =>
          /\ n > 0 /\ EndPage(responses[n])
          /\ exitCode = 0
          /\ txHashes = Concat(before)
     /\ (pc = "done" /\ n = 1) =>
          /\ report.tx_count = 0 /\ report.per_tx_count = 0
          /\ report.total_received_ada = Ada(0)
          /\ report.total_spent_ada = Ada(0)
          /\ report.net_ada_change = Ada(0)
          /\ report.estimated_fees_paid_ada = Ada(0)
          /\ report.outgoing_txs_with_assets_count = 0
          /\ report.unique_asset_units_moved_out = <<>>

\* two pages of one id each, then a body that is no array
C9_Witness ==
  /\ pc = "loop"
  /\ Len(responses) = 3 /\ ~responses[3].data.isArray
  /\ txHashes = <<2, 1>>

\* C10: the outgoing-with-assets counter equals the number of emitted
\* summaries whose outgoing_assets is non-empty, and so is at most the
\* number of summaries; the report carries that counter.
C10_AssetCount ==
  /\ outgoingWithAssetsCount =
       Cardinality({i \in 1..Len(perTxSummary) : perTxSummary[i].outgoing_assets # <<>>})
  /\ outgoingWithAssetsCount <= Len(perTxSummary)
  /\ pc = "done" =>
       /\ report.outgoing_txs_with_assets_count = outgoingWithAssetsCount
       /\ report.outgoing_txs_with_assets_count <= report.per_tx_count

\* one transaction moved assets out, another spent lovelace of the address
\* without any asset
C10_Witness ==
  /\ pc = "done"
  /\ Len(perTxSummary) = 2
  /\ outgoingWithAssetsCount = 1
  /\ perTxSummary[1].outgoing_assets = <<>>
  /\ Spent(perTxSummary[1]) > 0

====
